---- MODULE Spec2Model ----
(***************************************************************************)
(* Auto Capture review engine of the PDF screenshot exporter.              *)
(*                                                                         *)
(* State of AutoCaptureProvider (captures, capturing set, selection,       *)
(* annotations with undo/redo, rotations, auto-capture switch, active      *)
(* page) and of PdfViewer (the capturingRef guard, the captures in flight, *)
(* the pending debounce timers together with the values their callbacks    *)
(* closed over).                                                           *)
(*                                                                         *)
(* Time: every debounce timer has the same delay (DEBOUNCE_MS), so the     *)
(* pending timers expire in the order they were set; `timers` is that      *)
(* queue.  Asynchronous capture steps take an arbitrary time.              *)
(***************************************************************************)
EXTENDS Integers, Sequences, FiniteSets

\* ---------------------------------------------------------------- bounds
NumPages == 2          \* pages of the document
MaxAnnotations == 1    \* annotations on one page
MaxOps == 3            \* performCapture calls that pass the guard, under Spec
MaxUserEvents == 2     \* user events, under Spec
DeepOps == 4           \* the same two limits under SpecDeep
DeepUserEvents == 3
EditEvents == 5         \* user events, under SpecEdit
EditAnnotations == 2    \* annotations on one page, under SpecEdit
MaxRanges == 3          \* rows of the range list, under SpecRanges
MaxExports == 2         \* batch exports started, under SpecExport
MaxProposals == 2      \* calls of the debounced function, under SpecDebounce
TicksPerPeriod == 2    \* clock steps in one quiet period, under SpecDebounce

Pages == 1..NumPages
Null == 0
Undefined == NumPages + 1
DEBOUNCE_MS == 150
AnnKinds == {"highlight", "signature"}

VARIABLES
  captures,            \* Map<number, CapturedPage>: function on the captured pages
  capturingSet,        \* Set<number>
  selectedForExport,   \* Set<number>
  annotations,         \* Record<number, Annotation[]>, absent = <<>>
  annotationUndo,      \* Record<number, Annotation[][]>
  annotationRedo,      \* Record<number, Annotation[][]>
  pageRotations,       \* Record<number, number>, absent = 0
  autoCaptureEnabled,
  activePage,          \* number | null
  capturingRef,        \* PdfViewer's useRef(false)
  inflight,            \* performCapture calls that have not settled
  timers,              \* pending setTimeout callbacks of debounceActivePage, oldest first
  curPending,          \* the newest timer belongs to the current debouncedOnActive
  revoked,             \* thumbnail URLs passed to URL.revokeObjectURL
  everCaptured,        \* pages a CapturedPage has been stored for so far
  errorCount,          \* number of onError('Capture failed: ...') calls
  opCount,             \* performCapture calls that passed the guard so far
  userEvents,          \* user events handled so far
  eventLimit,          \* user events the run handles at most
  opLimit,             \* captures the run starts at most
  annotationLimit,     \* annotations the run puts on one page at most
  last,                \* the step taken last
  intersectionRatios,  \* PdfViewer's Map<number, number>, in insertion order
  resolved,            \* the observer callback's last resolution and frame request
  now,                 \* one debouncer taken alone: the clock, in ms
  timeoutId,           \* its pending setTimeout, if any, and when it is due
  lastValue,           \* its lastValue
  proposals,           \* the calls of the debounced function so far
  onStableCalls,       \* the calls of onStable so far
  ranges,              \* PageRange[]: the rows of the range list, as typed
  rangeResult,         \* what the range utilities returned for them
  galleryExporting,    \* CapturedGallery's isExporting
  handedToExport,      \* the page lists passed to exportCapturedToZip so far
  isExporting,         \* ExportControls' isExporting
  abortControllerRef,  \* ExportControls' abortControllerRef.current: a run, or Null
  exportRuns,          \* the exportPagesToZip calls that have not settled
  exportCount,         \* batch exports started so far
  appError,            \* App's error state, shown in the error Alert
  outcomes,            \* how the batch exports that settled were reported
  editingText,         \* PdfViewer's editingText, with the list before the gesture
  zip                  \* one exportPagesToZip call taken alone

vars == <<captures, capturingSet, selectedForExport, annotations, annotationUndo,
          annotationRedo, pageRotations, autoCaptureEnabled, activePage,
          capturingRef, inflight, timers, curPending, revoked, everCaptured,
          errorCount, opCount, userEvents, eventLimit, opLimit,
          annotationLimit, last, intersectionRatios, resolved, now, timeoutId, lastValue, proposals,
          onStableCalls, ranges, rangeResult, galleryExporting, handedToExport,
          isExporting, abortControllerRef, exportRuns, exportCount, appError,
          outcomes, editingText, zip>>

annVars == <<annotations, annotationUndo, annotationRedo, pageRotations>>
captureVars == <<captures, capturingSet, selectedForExport, revoked>>
opVars == <<capturingRef, inflight, opCount, errorCount, everCaptured>>
limits == <<eventLimit, opLimit, annotationLimit>>
observerVars == <<intersectionRatios, resolved>>
debounceVars == <<now, timeoutId, lastValue, proposals, onStableCalls>>
rangeVars == <<ranges, rangeResult>>
galleryVars == <<galleryExporting, handedToExport>>
exportVars == <<isExporting, abortControllerRef, exportRuns, exportCount, appError,
                outcomes>>
textVars == <<editingText>>
zipVars == <<zip>>
unitVars == <<observerVars, debounceVars, rangeVars, galleryVars, exportVars,
              textVars, zipVars>>
\* what the observer callback, taken alone, leaves as it is
viewerVars == <<captures, capturingSet, selectedForExport, annotations,
                annotationUndo, annotationRedo, pageRotations, autoCaptureEnabled,
                activePage, capturingRef, inflight, timers, curPending, revoked,
                everCaptured, errorCount, opCount, userEvents, eventLimit, opLimit,
                annotationLimit, last>>

\* ---------------------------------------------------------------- helpers
capturedSet == DOMAIN captures

Step(kind, page) ==
  [kind |-> kind, page |-> page, replace |-> FALSE, fresh |-> FALSE,
   held |-> FALSE, started |-> FALSE, origin |-> "none", id |-> 0, was |-> <<>>]

\* Map.set / Map.delete
MapSetDropped(m, k, v) == m
MapSet(m, k, v) == [p \in (DOMAIN m) \cup {k} |-> IF p = k THEN v ELSE m[p]]
MapDelete(m, k) == [p \in (DOMAIN m) \ {k} |-> m[p]]

\* URL.revokeObjectURL(existing.thumbnailUrl) for the entries of m at the pages ps
UrlsOfNone(m, ps) == {}
UrlsOfAll(m, ps) == {m[p].thumbnailUrl : p \in DOMAIN m}
UrlsOf(m, ps) == {m[p].thumbnailUrl : p \in ps \cap DOMAIN m}

\* a.kind === 'signature'; a signature is at the place it was put or moved
IsSignature(a) == a \in {"signature", "signature:moved"}

HasSignature(annList) == \E i \in 1..Len(annList) : IsSignature(annList[i])

\* A pending timer: the value proposed last and what the debouncedOnActive made
\* in the current render closes over: autoCaptureEnabled, capturedSet,
\* capturingSet and performCapture, which in turn closes over annotations and
\* pageRotations.  performCapture(value) reads only annotations[value] and
\* pageRotations[value], so that is the part of the two records kept here.
Closure(value, auto, caps, capturing, ann, rot) ==
  [value |-> value, auto |-> auto, captured |-> DOMAIN caps,
   capturing |-> capturing,
   ann |-> IF value = Null THEN <<>> ELSE ann[value],
   rot |-> IF value = Null THEN 0 ELSE rot[value]]

\* debounceActivePage's returned function called on the current debouncer:
\* clearTimeout of its pending timer, then setTimeout.
DebounceCall(q, pending, t) ==
  IF pending THEN [q EXCEPT ![Len(q)] = t] ELSE Append(q, t)

\* A dependency of the useMemo changed identity: a new debouncer is made (the
\* old one's timer stays pending) and the effect calls it with activePage.
Rearm(q, t) == Append(q, t)

EmptyMap == [p \in {} |-> 0]

\* useState<{ pageNum: number; index: number } | null>(null); `before` keeps
\* the page's list as it was when the text gesture began (`undoBefore` and
\* `redoBefore` its two stacks), `text` what the editor held when it closed.
NoEditingText ==
  [open |-> FALSE, pageNum |-> Null, index |-> 0, before |-> <<>>, text |-> <<>>,
   undoBefore |-> <<>>, redoBefore |-> <<>>]

\* No call of exportPagesToZip yet: `pc` is the await the call stands at,
\* `abortedAt` where it stood when its signal was aborted, `files` the pages
\* put into the archive, `saved` whether saveAs ran.
NoZipCall ==
  [pc |-> "idle", startPage |-> 0, endPage |-> 0, pageNum |-> 0, aborted |-> FALSE,
   abortedAt |-> "never", files |-> <<>>, saved |-> FALSE, outcome |-> "pending"]

\* URL.createObjectURL gives every settled capture a URL of its own.
NewCapturedPage(op) ==
  [fullSizeBlob |-> [page |-> op.page, ann |-> op.ann, rot |-> op.rot],
   thumbnailUrl |-> op.id]

\* ------------------------------------------------- performCapture, pieces
\* `if (capturingRef.current) return;`
GuardRejectsOff == FALSE
GuardRejects == capturingRef

\* `if (!replace) addCapturing(pageNum);`
AddCapturingAlways(page, replace) == capturingSet \cup {page}
AddCapturingOnStart(page, replace) ==
  IF replace THEN capturingSet ELSE capturingSet \cup {page}

\* `catch { if (!replace) removeCapturing(pageNum); ... }`
CapturingAfterFailKept(op) == capturingSet
CapturingAfterFail(op) ==
  IF op.replace THEN capturingSet ELSE capturingSet \ {op.page}

\* `finally { capturingRef.current = false; }`, reached on both paths
GuardAfterSettleNoFinally(failed) == IF failed THEN capturingRef ELSE FALSE
GuardAfterSettle(failed) == FALSE

\* handleRecapture: `capturingRef.current = false;` before performCapture
RecaptureGuard == FALSE

\* The debounced callback's early returns.
AutoEligible(t) ==
  /\ t.value # Null
  /\ t.auto
  /\ ~(t.value \in t.captured \/ t.value \in t.capturing)

\* The call that passed the guard, up to its first await.
NewOp(page, replace, annList, rotation, origin) ==
  [id |-> opCount + 1, page |-> page, replace |-> replace, pc |-> "render",
   ann |-> annList, rot |-> rotation, fresh |-> page \notin capturedSet,
   origin |-> origin]

\* ------------------------------------------------- AutoCaptureProvider, pieces
\* addCapture: setSelectedForExport(prev => new Set(prev).add(pageNum))
SelectedAfterAddCaptureNone(page) == selectedForExport
SelectedAfterAddCapture(page) == selectedForExport \cup {page}

\* removeCapture: the three state updates
SelectedAfterRemoveCaptureKept(page) == selectedForExport
SelectedAfterRemoveCapture(page) == selectedForExport \ {page}

\* clearAllCaptures: setCapturingSet(new Set())
CapturingAfterClearAllKept == capturingSet
CapturingAfterClearAll == {}

CurrentClosure ==
  Closure(activePage', autoCaptureEnabled', captures', capturingSet',
          annotations', pageRotations')

\* Re-render after a state update that changed a dependency of debouncedOnActive.
RearmNow ==
  /\ timers' = Rearm(timers, CurrentClosure)
  /\ curPending' = TRUE

\* A user event on a control other than the inline text editor; while the
\* editor is open it has the focus, and losing it closes the editor first.
UserEvent ==
  /\ userEvents < eventLimit
  /\ ~editingText.open
  /\ userEvents' = userEvents + 1
  /\ UNCHANGED <<limits, unitVars>>

\* ------------------------------------------------- active-page resolver
\* Intersection ratios in hundredths.
Ratios == {0, 10, 15, 20, 25, 30, 40}

\* entries.get(page) ?? 0
RatioOf(entries, page) ==
  IF \E i \in 1..Len(entries) : entries[i][1] = page
  THEN (CHOOSE e \in {entries[i] : i \in 1..Len(entries)} : e[1] = page)[2]
  ELSE 0

\* Map.set: an existing key keeps its place, a new key goes last.
RatioSet(entries, page, ratio) ==
  IF \E i \in 1..Len(entries) : entries[i][1] = page
  THEN [i \in 1..Len(entries) |->
          IF entries[i][1] = page THEN <<page, ratio>> ELSE entries[i]]
  ELSE Append(entries, <<page, ratio>>)

\* `if (ratio > bestRatio)`
BetterOrEqual(ratio, bestRatio) == ratio >= bestRatio
Better(ratio, bestRatio) == ratio > bestRatio

\* The for-of loop from entry i on.
RECURSIVE BestFrom(_, _, _)
BestFrom(entries, i, best) ==
  IF i > Len(entries) THEN best
  ELSE BestFrom(entries, i + 1,
                IF Better(entries[i][2], best.ratio)
                THEN [page |-> entries[i][1], ratio |-> entries[i][2]]
                ELSE best)

getActivePageFromIntersections(entries, currentActive) ==
  IF Len(entries) = 0 THEN Null
  ELSE LET best == BestFrom(entries, 1, [page |-> Null, ratio |-> 0])
           currentRatio == RatioOf(entries, currentActive)
       IN IF best.page = Null THEN Null
          ELSE IF /\ currentActive # Null
                  /\ best.page # currentActive
                  /\ currentRatio >= 20
                  /\ best.ratio < currentRatio + 15
               THEN currentActive
               ELSE best.page

\* ---------------------------------------------------------------- Init
\* ------------------------------------------------- range utilities
\* A field of a range row is the text typed into it: a sequence of characters.
Fields == {<<>>, <<"-", "1">>, <<"1">>, <<" ", "2">>, <<"3">>}
Rows == [start : Fields, end : Fields]
RangeLists == UNION {[1..n -> Rows] : n \in 0..MaxRanges}

\* An error message is the sequence of its parts; null is the empty sequence.
NoError == <<>>

RangeResult(fn, error, normalized, pages) ==
  [fn |-> fn, error |-> error, normalized |-> normalized, pages |-> pages]

NoRangeResult == RangeResult("none", NoError, <<>>, <<>>)

DigitValue(c) ==
  CASE c = "0" -> 0 [] c = "1" -> 1 [] c = "2" -> 2 [] c = "3" -> 3
    [] c = "4" -> 4 [] c = "5" -> 5 [] c = "6" -> 6 [] c = "7" -> 7
    [] c = "8" -> 8 [] c = "9" -> 9 [] OTHER -> 10

IsDigit(c) == DigitValue(c) < 10

\* Leading white space, which parseInt skips
RECURSIVE TrimStart(_)
TrimStart(s) ==
  IF s # <<>> /\ Head(s) = " " THEN TrimStart(Tail(s)) ELSE s

\* String.prototype.trim
RECURSIVE Trim(_)
Trim(s) ==
  IF s # <<>> /\ s[Len(s)] = " " THEN Trim(SubSeq(s, 1, Len(s) - 1))
  ELSE TrimStart(s)

\* The digits parseInt reads from position i on, as a number; it stops at the
\* first character that is not a digit.
RECURSIVE DigitsFrom(_, _, _)
DigitsFrom(s, i, acc) ==
  IF i <= Len(s) /\ IsDigit(s[i])
  THEN DigitsFrom(s, i + 1, 10 * acc + DigitValue(s[i]))
  ELSE acc

\* parseInt(text, 10): white space, an optional sign, then digits; NaN when no
\* digit follows.
ParseInt(text) ==
  LET s == TrimStart(text)
      signed == s # <<>> /\ Head(s) \in {"-", "+"}
      first == IF signed THEN 2 ELSE 1
      magnitude == DigitsFrom(s, first, 0)
  IN IF first <= Len(s) /\ IsDigit(s[first])
     THEN [nan |-> FALSE, n |-> IF signed /\ Head(s) = "-" THEN 0 - magnitude
                                 ELSE magnitude]
     ELSE [nan |-> TRUE, n |-> 0]

\* parsePage: parseInt(String(s).trim(), 10), null for NaN
parsePage(s) ==
  LET n == ParseInt(Trim(s))
  IN [null |-> n.nan, n |-> n.n]

\* String(n), for the numbers of a normalized range handed back as a row
DigitChar(d) ==
  CASE d = 0 -> "0" [] d = 1 -> "1" [] d = 2 -> "2" [] d = 3 -> "3" [] d = 4 -> "4"
    [] d = 5 -> "5" [] d = 6 -> "6" [] d = 7 -> "7" [] d = 8 -> "8" [] d = 9 -> "9"

RECURSIVE DigitsOf(_)
DigitsOf(n) ==
  IF n < 10 THEN <<DigitChar(n)>> ELSE Append(DigitsOf(n \div 10), DigitChar(n % 10))

String(n) == IF n < 0 THEN <<"-">> \o DigitsOf(0 - n) ELSE DigitsOf(n)

\* validateRange: the error message, or null
EndAtMost(end, numPages) == end >= numPages
EndExceeds(end, numPages) == end > numPages

validateRange(r, numPages) ==
  LET start == parsePage(r.start)
      end == parsePage(r.end)
  IN IF start.null \/ end.null THEN <<"All range fields must be filled.">>
     ELSE IF start.n < 1 THEN <<"Start page must be at least 1.">>
     ELSE IF EndExceeds(end.n, numPages)
          THEN <<"End page cannot exceed ", numPages, ".">>
     ELSE IF start.n > end.n
          THEN <<"Start page must be less than or equal to end page.">>
     ELSE NoError

RECURSIVE FirstError(_, _, _)
FirstError(rs, i, numPages) ==
  IF i > Len(rs) THEN NoError
  ELSE LET err == validateRange(rs[i], numPages)
       IN IF err # NoError THEN err ELSE FirstError(rs, i + 1, numPages)

validateRanges(rs, numPages) ==
  IF Len(rs) = 0 THEN <<"At least one range is required.">>
  ELSE FirstError(rs, 1, numPages)

Min(a, b) == IF a < b THEN a ELSE b
Max(a, b) == IF a > b THEN a ELSE b

\* toNumericRanges: the rows whose two fields parse, each as {min, max}
NumericAsTyped(start, end) == [start |-> start, end |-> end]
Numeric(start, end) == [start |-> Min(start, end), end |-> Max(start, end)]

RECURSIVE toNumericRanges(_)
toNumericRanges(rs) ==
  IF rs = <<>> THEN <<>>
  ELSE LET start == parsePage(Head(rs).start)
           end == parsePage(Head(rs).end)
       IN IF start.null \/ end.null THEN toNumericRanges(Tail(rs))
          ELSE <<Numeric(start.n, end.n)>> \o toNumericRanges(Tail(rs))

\* [...numeric].sort((a, b) => a.start - b.start): Array.prototype.sort is
\* stable, so r goes behind the elements whose start is not greater.
RECURSIVE InsertByStart(_, _)
InsertByStart(sorted, r) ==
  IF sorted = <<>> THEN <<r>>
  ELSE IF Head(sorted).start <= r.start
       THEN <<Head(sorted)>> \o InsertByStart(Tail(sorted), r)
       ELSE <<r>> \o sorted

RECURSIVE SortByStart(_)
SortByStart(rs) ==
  IF rs = <<>> THEN <<>>
  ELSE InsertByStart(SortByStart(SubSeq(rs, 1, Len(rs) - 1)), rs[Len(rs)])

\* `!last || r.start > last.end + 1`, last being merged[merged.length - 1]
StartsGroupIfBeyond(sorted, i, merged) ==
  merged = <<>> \/ sorted[i].start > merged[Len(merged)].end
StartsGroupAfterPrevious(sorted, i, merged) ==
  i = 1 \/ sorted[i].start > sorted[i - 1].end + 1
StartsGroup(sorted, i, merged) ==
  merged = <<>> \/ sorted[i].start > merged[Len(merged)].end + 1

\* the merge sweep of normalizeRangesForExport
RECURSIVE MergeFrom(_, _, _)
MergeFrom(sorted, i, merged) ==
  IF i > Len(sorted) THEN merged
  ELSE IF StartsGroup(sorted, i, merged)
       THEN MergeFrom(sorted, i + 1,
                      Append(merged, [start |-> sorted[i].start,
                                      end |-> sorted[i].end]))
       ELSE MergeFrom(sorted, i + 1,
                      [merged EXCEPT ![Len(merged)].end = Max(@, sorted[i].end)])

normalizeRangesForExport(rs) == MergeFrom(SortByStart(toNumericRanges(rs)), 1, <<>>)

\* for (let p = start; p <= end; p++) pages.push(p)
PagesFromTo(start, end) ==
  IF end < start THEN <<>> ELSE [i \in 1..(end - start + 1) |-> start + i - 1]

RECURSIVE PagesOfRanges(_)
PagesOfRanges(normalized) ==
  IF normalized = <<>> THEN <<>>
  ELSE PagesFromTo(Head(normalized).start, Head(normalized).end)
         \o PagesOfRanges(Tail(normalized))

\* [...new Set(pages)]: the first occurrence of every value, in order
RECURSIVE Unique(_)
Unique(pages) ==
  IF pages = <<>> THEN <<>>
  ELSE LET front == Unique(SubSeq(pages, 1, Len(pages) - 1))
           p == pages[Len(pages)]
       IN IF \E i \in 1..Len(front) : front[i] = p THEN front ELSE Append(front, p)

\* .sort((a, b) => a - b)
RECURSIVE InsertNumber(_, _)
InsertNumber(sorted, n) ==
  IF sorted = <<>> THEN <<n>>
  ELSE IF Head(sorted) <= n THEN <<Head(sorted)>> \o InsertNumber(Tail(sorted), n)
       ELSE <<n>> \o sorted

RECURSIVE SortNumbers(_)
SortNumbers(ns) ==
  IF ns = <<>> THEN <<>>
  ELSE InsertNumber(SortNumbers(SubSeq(ns, 1, Len(ns) - 1)), ns[Len(ns)])

expandRangesToPages(rs) ==
  SortNumbers(Unique(PagesOfRanges(normalizeRangesForExport(rs))))

InitState ==
  /\ captures = EmptyMap
  /\ capturingSet = {}
  /\ selectedForExport = {}
  /\ annotations = [p \in Pages |-> <<>>]
  /\ annotationUndo = [p \in Pages |-> <<>>]
  /\ annotationRedo = [p \in Pages |-> <<>>]
  /\ pageRotations = [p \in Pages |-> 0]
  /\ autoCaptureEnabled = TRUE
  \* before, or after, the IntersectionObserver's first callback (page 1 on top)
  /\ activePage \in {Null, 1}
  /\ capturingRef = FALSE
  /\ inflight = {}
  \* the mount effects: debouncedOnActive(null), then debouncedOnActive(1)
  /\ timers = <<Closure(1, TRUE, EmptyMap, {}, [p \in Pages |-> <<>>],
                        [p \in Pages |-> 0])>>
  /\ curPending = TRUE
  /\ revoked = {}
  /\ everCaptured = {}
  /\ errorCount = 0
  /\ opCount = 0
  /\ userEvents = 0
  /\ last = Step("init", Null)
  /\ intersectionRatios = <<>>
  /\ resolved = [called |-> FALSE, current |-> Null, page |-> Null,
                 requested |-> FALSE, next |-> Null]
  /\ now = 0
  /\ timeoutId = [set |-> FALSE, due |-> 0]
  /\ lastValue = Undefined
  /\ proposals = <<>>
  /\ onStableCalls = <<>>
  /\ rangeResult = NoRangeResult
  /\ galleryExporting = FALSE
  /\ handedToExport = <<>>
  /\ isExporting = FALSE
  /\ abortControllerRef = Null
  /\ exportRuns = {}
  /\ exportCount = 0
  /\ appError = ""
  /\ outcomes = <<>>
  /\ editingText = NoEditingText
  /\ zip = NoZipCall

Init ==
  /\ InitState
  /\ ranges = <<>>
  /\ eventLimit = MaxUserEvents
  /\ opLimit = MaxOps
  /\ annotationLimit = MaxAnnotations

InitDeep ==
  /\ InitState
  /\ ranges = <<>>
  /\ eventLimit = DeepUserEvents
  /\ opLimit = DeepOps
  /\ annotationLimit = MaxAnnotations

\* The annotation editor alone: no capture starts.
InitEdit ==
  /\ InitState
  /\ ranges = <<>>
  /\ eventLimit = EditEvents
  /\ opLimit = 0
  /\ annotationLimit = EditAnnotations

\* ---------------------------------------------------------------- capture
\* The setTimeout callback of the oldest pending timer runs.
TimerFire ==
  /\ timers # <<>>
  /\ UNCHANGED <<limits, unitVars>>
  /\ LET t == Head(timers)
         \* the timer that ran is no longer the current debouncer's pending one
         pend == IF Len(timers) = 1 THEN FALSE ELSE curPending
     IN IF AutoEligible(t) /\ ~GuardRejects
        THEN /\ opCount < opLimit
             /\ capturingRef' = TRUE
             /\ capturingSet' = AddCapturingOnStart(t.value, FALSE)
             /\ inflight' = inflight \cup {NewOp(t.value, FALSE, t.ann, t.rot, "auto")}
             /\ opCount' = opCount + 1
             /\ last' = [Step("auto", t.value) EXCEPT
                           !.held = capturingRef, !.started = TRUE,
                           !.fresh = t.value \notin capturedSet,
                           !.origin = "auto", !.id = opCount + 1]
             /\ UNCHANGED <<captures, selectedForExport, revoked, everCaptured,
                            errorCount, annVars, autoCaptureEnabled, activePage,
                            userEvents>>
             /\ timers' = Rearm(Tail(timers), CurrentClosure)
             /\ curPending' = TRUE
        ELSE /\ timers' = Tail(timers)
             /\ curPending' = pend
             /\ last' = [Step(IF AutoEligible(t) THEN "auto" ELSE "timer", t.value)
                           EXCEPT !.held = capturingRef, !.origin = "auto"]
             /\ UNCHANGED <<captureVars, opVars, annVars, autoCaptureEnabled,
                            activePage, userEvents>>

\* handleCaptureNow; the button is rendered while auto-capture is off.
CaptureNow ==
  /\ UserEvent
  /\ ~autoCaptureEnabled
  /\ activePage # Null
  /\ IF ~GuardRejects
     THEN /\ opCount < opLimit
          /\ capturingRef' = TRUE
          /\ capturingSet' = AddCapturingOnStart(activePage, FALSE)
          /\ inflight' = inflight \cup
               {NewOp(activePage, FALSE, annotations[activePage],
                      pageRotations[activePage], "captureNow")}
          /\ opCount' = opCount + 1
          /\ last' = [Step("captureNow", activePage) EXCEPT
                        !.held = capturingRef, !.started = TRUE,
                        !.fresh = activePage \notin capturedSet,
                        !.origin = "captureNow", !.id = opCount + 1]
          /\ UNCHANGED <<captures, selectedForExport, revoked, everCaptured,
                         errorCount, annVars, autoCaptureEnabled, activePage>>
          /\ RearmNow
     ELSE /\ last' = [Step("captureNow", activePage) EXCEPT
                        !.held = capturingRef, !.origin = "captureNow"]
          /\ UNCHANGED <<captureVars, opVars, annVars, autoCaptureEnabled,
                         activePage, timers, curPending>>

\* handleRecapture; the button is rendered on the active page once captured.
Recapture(p) ==
  /\ UserEvent
  /\ p = activePage
  /\ p \in capturedSet
  /\ IF ~RecaptureGuard
     THEN /\ opCount < opLimit
          /\ capturingRef' = TRUE
          /\ capturingSet' = AddCapturingOnStart(p, TRUE)
          /\ inflight' = inflight \cup
               {NewOp(p, TRUE, annotations[p], pageRotations[p], "recapture")}
          /\ opCount' = opCount + 1
          /\ last' = [Step("recapture", p) EXCEPT
                        !.replace = TRUE, !.held = capturingRef, !.started = TRUE,
                        !.origin = "recapture", !.id = opCount + 1]
          /\ UNCHANGED <<captures, selectedForExport, revoked, everCaptured,
                         errorCount, annVars, autoCaptureEnabled, activePage,
                         timers, curPending>>
     ELSE /\ last' = [Step("recapture", p) EXCEPT
                        !.replace = TRUE, !.held = capturingRef, !.origin = "recapture"]
          /\ UNCHANGED <<captureVars, opVars, annVars, autoCaptureEnabled,
                         activePage, timers, curPending>>

NextPc(op) ==
  CASE op.pc = "render" -> IF HasSignature(op.ann) THEN "signature" ELSE "encode"
    [] op.pc = "signature" -> "encode"
    [] op.pc = "encode" -> "thumb"
    [] OTHER -> "done"

\* An await of performCapture resolves and the call runs to its next await.
CaptureAdvance(op) ==
  /\ op \in inflight
  /\ UNCHANGED <<limits, unitVars>>
  /\ NextPc(op) # "done"
  /\ inflight' = (inflight \ {op}) \cup {[op EXCEPT !.pc = NextPc(op)]}
  /\ last' = [Step("advance", op.page) EXCEPT
                !.replace = op.replace, !.origin = op.origin, !.id = op.id]
  /\ UNCHANGED <<captureVars, capturingRef, opCount, errorCount, everCaptured,
                 annVars, autoCaptureEnabled, activePage, timers, curPending,
                 userEvents>>

\* createThumbnailBlob resolves: setCapture or addCapture, then the finally.
CaptureComplete(op) ==
  /\ op \in inflight
  /\ UNCHANGED <<limits, unitVars>>
  /\ NextPc(op) = "done"
  /\ inflight' = inflight \ {op}
  /\ captures' = MapSet(captures, op.page, NewCapturedPage(op))
  /\ revoked' = revoked \cup UrlsOf(captures, {op.page})
  /\ everCaptured' = everCaptured \cup {op.page}
  /\ IF op.replace
     THEN UNCHANGED <<capturingSet, selectedForExport>>
     ELSE /\ capturingSet' = capturingSet \ {op.page}
          /\ selectedForExport' = SelectedAfterAddCapture(op.page)
  /\ capturingRef' = GuardAfterSettle(FALSE)
  /\ last' = [Step("complete", op.page) EXCEPT
                !.replace = op.replace, !.fresh = op.fresh,
                !.origin = op.origin, !.id = op.id]
  /\ UNCHANGED <<opCount, errorCount, annVars, autoCaptureEnabled, activePage,
                 userEvents>>
  /\ RearmNow

\* An await of performCapture rejects (or the overlay drawing after it throws).
CaptureReject(op) ==
  /\ op \in inflight
  /\ UNCHANGED <<limits, unitVars>>
  /\ inflight' = inflight \ {op}
  /\ capturingSet' = CapturingAfterFail(op)
  /\ errorCount' = errorCount + 1
  /\ capturingRef' = GuardAfterSettle(TRUE)
  /\ last' = [Step("fail", op.page) EXCEPT
                !.replace = op.replace, !.fresh = op.fresh,
                !.origin = op.origin, !.id = op.id]
  /\ UNCHANGED <<captures, selectedForExport, revoked, everCaptured, opCount,
                 annVars, autoCaptureEnabled, activePage, userEvents>>
  /\ IF op.replace THEN UNCHANGED <<timers, curPending>> ELSE RearmNow

\* ---------------------------------------------------------------- viewer
\* The IntersectionObserver callback resolved a different active page and
\* setActivePage ran; the effect calls the current debouncedOnActive with it.
SetActivePage(p) ==
  /\ UserEvent
  /\ p # activePage
  /\ activePage' = p
  /\ last' = Step("setActivePage", p)
  /\ UNCHANGED <<captureVars, opVars, annVars, autoCaptureEnabled>>
  /\ timers' = DebounceCall(timers, curPending, CurrentClosure)
  /\ curPending' = TRUE

\* The Auto Capture checkbox.
ToggleAutoCapture ==
  /\ UserEvent
  /\ autoCaptureEnabled' = ~autoCaptureEnabled
  /\ last' = Step("toggleAuto", Null)
  /\ UNCHANGED <<captureVars, opVars, annVars, activePage>>
  /\ RearmNow

\* "Undo capture" on the active, captured page: removeCapture(pageNum).
UndoCapture(p) ==
  /\ UserEvent
  /\ p = activePage
  /\ p \in capturedSet
  /\ capturingSet' = capturingSet \ {p}
  /\ captures' = MapDelete(captures, p)
  /\ revoked' = revoked \cup UrlsOf(captures, {p})
  /\ selectedForExport' = SelectedAfterRemoveCapture(p)
  /\ last' = Step("undoCapture", p)
  /\ UNCHANGED <<opVars, annVars, autoCaptureEnabled, activePage>>
  /\ RearmNow

\* ---------------------------------------------------------------- gallery
GalleryShown == capturedSet \cup capturingSet # {}

\* The checkbox of a gallery tile (disabled while the page is capturing).  The
\* gallery's controls are disabled while its export runs.
ToggleSelected(p) ==
  /\ UserEvent
  /\ ~galleryExporting
  /\ p \in capturedSet
  /\ p \notin capturingSet
  /\ selectedForExport' = IF p \in selectedForExport
                          THEN selectedForExport \ {p}
                          ELSE selectedForExport \cup {p}
  /\ last' = Step("toggleSelected", p)
  /\ UNCHANGED <<captures, capturingSet, revoked, opVars, annVars,
                 autoCaptureEnabled, activePage, timers, curPending>>

SelectAllCaptured ==
  /\ UserEvent
  /\ ~galleryExporting
  /\ GalleryShown
  /\ selectedForExport' = capturedSet
  /\ last' = Step("selectAll", Null)
  /\ UNCHANGED <<captures, capturingSet, revoked, opVars, annVars,
                 autoCaptureEnabled, activePage, timers, curPending>>

DeselectAllCaptured ==
  /\ UserEvent
  /\ ~galleryExporting
  /\ GalleryShown
  /\ selectedForExport' = {}
  /\ last' = Step("deselectAll", Null)
  /\ UNCHANGED <<captures, capturingSet, revoked, opVars, annVars,
                 autoCaptureEnabled, activePage, timers, curPending>>

\* "Remove selected" (disabled while no captured page is selected).
RemoveSelectedCaptures ==
  /\ UserEvent
  /\ ~galleryExporting
  /\ capturedSet \cap selectedForExport # {}
  /\ LET toRemove == capturedSet \cap selectedForExport
     IN /\ captures' = [p \in capturedSet \ toRemove |-> captures[p]]
        /\ revoked' = revoked \cup UrlsOf(captures, toRemove)
        /\ selectedForExport' = selectedForExport \ toRemove
  /\ last' = Step("removeSelected", Null)
  /\ UNCHANGED <<capturingSet, opVars, annVars, autoCaptureEnabled, activePage>>
  /\ RearmNow

ClearAllCaptures ==
  /\ UserEvent
  /\ ~galleryExporting
  /\ GalleryShown
  /\ capturingSet' = CapturingAfterClearAll
  /\ captures' = EmptyMap
  /\ revoked' = revoked \cup UrlsOf(captures, capturedSet)
  /\ selectedForExport' = {}
  /\ last' = Step("clearAll", Null)
  /\ UNCHANGED <<opVars, annVars, autoCaptureEnabled, activePage>>
  /\ RearmNow

\* Array.from(new Set([...])).sort((a, b) => a - b): the numbers of a set, ascending
RECURSIVE Ascending(_)
Ascending(S) ==
  IF S = {} THEN <<>>
  ELSE LET least == CHOOSE n \in S : \A m \in S : n <= m
       IN <<least>> \o Ascending(S \ {least})

\* capturedPageNumbers: the tiles of the gallery, placeholders included
capturedPageNumbers == Ascending(capturedSet \cup capturingSet)

\* (pn) => captures.has(pn) && selectedForExport.has(pn)
IsShown(pn) == TRUE
IsSelectedCapture(pn) == pn \in capturedSet /\ pn \in selectedForExport

selectedCount == Len(SelectSeq(capturedPageNumbers, IsSelectedCapture))

\* The gallery's handleExport ("Export selected to ZIP", disabled while
\* exporting or while nothing is selected).  With an empty prefix it reports
\* that and hands nothing over.
ExportSelected(prefixGiven) ==
  /\ userEvents < eventLimit
  /\ userEvents' = userEvents + 1
  /\ ~galleryExporting
  /\ selectedCount > 0
  /\ LET selected == SelectSeq(capturedPageNumbers, IsSelectedCapture)
     IN IF selected = <<>>
        THEN /\ appError' = "No pages selected. Select at least one captured page to export."
             /\ UNCHANGED galleryVars
        ELSE IF ~prefixGiven
        THEN /\ appError' = "Please enter an output filename prefix in Export settings."
             /\ UNCHANGED galleryVars
        ELSE /\ galleryExporting' = TRUE
             /\ appError' = ""
             /\ handedToExport' = Append(handedToExport, selected)
  /\ last' = Step("exportSelected", Null)
  /\ UNCHANGED <<captureVars, opVars, annVars, autoCaptureEnabled, activePage,
                 timers, curPending, limits, observerVars, debounceVars, rangeVars,
                 isExporting, abortControllerRef, exportRuns, exportCount, outcomes,
                 textVars, zipVars>>

\* exportCapturedToZip settles: onSuccess(result), or onError('Export failed: ...');
\* finally setIsExporting(false).
GalleryExportSettles(ok) ==
  /\ galleryExporting
  /\ galleryExporting' = FALSE
  /\ appError' = IF ok THEN "" ELSE "Export failed: "
  /\ last' = Step("exportSettled", Null)
  /\ UNCHANGED <<captureVars, opVars, annVars, autoCaptureEnabled, activePage,
                 timers, curPending, userEvents, limits, observerVars, debounceVars,
                 rangeVars, handedToExport, isExporting, abortControllerRef,
                 exportRuns, exportCount, outcomes, textVars, zipVars>>

\* ---------------------------------------------------------------- annotations
\* setAnnotationRedo((rPrev) => ({ ...rPrev, [pageNum]: [] })) of a push
RedoAfterPushKept(p) == annotationRedo
RedoAfterPush(p) == [annotationRedo EXCEPT ![p] = <<>>]

\* undoStack[undoStack.length - 1] / redoStack[redoStack.length - 1]
OldestOf(stack) == stack[1]
LatestOf(stack) == stack[Len(stack)]

\* stack.slice(0, -1)
WithoutOldest(stack) == Tail(stack)
WithoutLatest(stack) == SubSeq(stack, 1, Len(stack) - 1)

\* setPageRotation(activePage, current + 90) stores degrees % 360
RotatedNoWrap(current) == current + 90
Rotated(current) == (current + 90) % 360

\* A gesture commit (or the signature modal's save): appendAnnotation.
AppendAnnotation(p, a) ==
  /\ UserEvent
  /\ Len(annotations[p]) < annotationLimit
  /\ annotations' = [annotations EXCEPT ![p] = Append(@, a)]
  /\ annotationUndo' = [annotationUndo EXCEPT ![p] = Append(@, annotations[p])]
  /\ annotationRedo' = RedoAfterPush(p)
  /\ last' = Step("append", p)
  /\ UNCHANGED <<captureVars, opVars, pageRotations, autoCaptureEnabled, activePage>>
  /\ RearmNow

\* The eraser's pointer-down: removeLastAnnotation (no update on an empty list).
RemoveLastAnnotation(p) ==
  /\ UserEvent
  /\ last' = Step("eraser", p)
  /\ UNCHANGED <<captureVars, opVars, pageRotations, autoCaptureEnabled, activePage>>
  /\ IF annotations[p] = <<>>
     THEN UNCHANGED <<annotations, annotationUndo, annotationRedo, timers, curPending>>
     ELSE /\ annotations' = [annotations EXCEPT ![p] = WithoutLatest(@)]
          /\ annotationUndo' = [annotationUndo EXCEPT ![p] = Append(@, annotations[p])]
          /\ annotationRedo' = RedoAfterPush(p)
          /\ RearmNow

\* A page's list with its two stacks, as a step found them
HistoryOf(p) == <<annotations[p], annotationUndo[p], annotationRedo[p]>>

\* The toolbar's Undo (disabled while the active page's undo stack is empty).
UndoAnnotation ==
  /\ UserEvent
  /\ activePage # Null
  /\ annotationUndo[activePage] # <<>>
  /\ LET p == activePage
         undoStack == annotationUndo[p]
     IN /\ annotationUndo' = [annotationUndo EXCEPT ![p] = WithoutLatest(@)]
        /\ annotationRedo' = [annotationRedo EXCEPT ![p] = Append(@, annotations[p])]
        /\ annotations' = [annotations EXCEPT ![p] = LatestOf(undoStack)]
  /\ last' = [Step("undoAnnotation", activePage) EXCEPT !.was = HistoryOf(activePage)]
  /\ UNCHANGED <<captureVars, opVars, pageRotations, autoCaptureEnabled, activePage>>
  /\ RearmNow

RedoAnnotation ==
  /\ UserEvent
  /\ activePage # Null
  /\ annotationRedo[activePage] # <<>>
  /\ LET p == activePage
         redoStack == annotationRedo[p]
     IN /\ annotationRedo' = [annotationRedo EXCEPT ![p] = WithoutLatest(@)]
        /\ annotationUndo' = [annotationUndo EXCEPT ![p] = Append(@, annotations[p])]
        /\ annotations' = [annotations EXCEPT ![p] = LatestOf(redoStack)]
  /\ last' = [Step("redoAnnotation", activePage) EXCEPT !.was = HistoryOf(activePage)]
  /\ UNCHANGED <<captureVars, opVars, pageRotations, autoCaptureEnabled, activePage>>
  /\ RearmNow

\* undoAnnotation(pageNum) called by anything but the toolbar while the page's
\* undo stack is empty: `if (undoStack.length === 0) return;`
UndoOnEmpty(p) ==
  /\ UserEvent
  /\ annotationUndo[p] = <<>>
  /\ last' = Step("undoEmpty", p)
  /\ UNCHANGED <<captureVars, opVars, annVars, autoCaptureEnabled, activePage,
                 timers, curPending>>

\* redoAnnotation(pageNum) likewise: `if (redoStack.length === 0) return;`
RedoOnEmpty(p) ==
  /\ UserEvent
  /\ annotationRedo[p] = <<>>
  /\ last' = Step("redoEmpty", p)
  /\ UNCHANGED <<captureVars, opVars, annVars, autoCaptureEnabled, activePage,
                 timers, curPending>>

\* { ...a, x: newX, y: newY }
MovedSignature(a) == IF a = "signature" THEN "signature:moved" ELSE "signature"

\* handlePagePointerMove while the signature at index i of page p is dragged
\* (the pointer-down that selected it changes no annotation):
\* setAnnotationsForPage(pageNum, updated).
MoveSignature(p, i) ==
  /\ UserEvent
  /\ i \in 1..Len(annotations[p])
  /\ IsSignature(annotations[p][i])
  /\ annotations' = [annotations EXCEPT ![p][i] = MovedSignature(@)]
  /\ last' = Step("moveSignature", p)
  /\ UNCHANGED <<captureVars, opVars, annotationUndo, annotationRedo, pageRotations,
                 autoCaptureEnabled, activePage>>
  /\ RearmNow

\* ---------------------------------------------------------------- text notes
\* What the user typed into the inline editor.
Texts == {<<>>, <<" ">>, <<" ", "h", "i", " ">>}

\* A text note whose text is the given one
TextNote(text) == IF text = <<>> THEN "text:" ELSE "text:hi"

IsTextNote(a) == a \in {TextNote(text) : text \in Texts \cup {<<"h", "i">>}}

\* `if (newText.trim())`
IsBlankUntrimmed(newText) == newText = <<>>
IsBlank(newText) == Trim(newText) = <<>>

\* The text tool's pointer-up: appendAnnotation of a note with text '' and
\* setEditingText({ pageNum, index: annList.length }).
StartTextNote(p) ==
  /\ userEvents < eventLimit
  /\ userEvents' = userEvents + 1
  /\ ~editingText.open
  /\ Len(annotations[p]) < annotationLimit
  /\ annotations' = [annotations EXCEPT ![p] = Append(@, TextNote(<<>>))]
  /\ annotationUndo' = [annotationUndo EXCEPT ![p] = Append(@, annotations[p])]
  /\ annotationRedo' = RedoAfterPush(p)
  /\ editingText' = [open |-> TRUE, pageNum |-> p, index |-> Len(annotations[p]),
                      before |-> annotations[p], text |-> <<>>,
                      undoBefore |-> annotationUndo[p],
                      redoBefore |-> annotationRedo[p]]
  /\ last' = Step("textGesture", p)
  /\ UNCHANGED <<captureVars, opVars, pageRotations, autoCaptureEnabled, activePage,
                 limits, observerVars, debounceVars, rangeVars, galleryVars,
                 exportVars, zipVars>>
  /\ RearmNow

\* removeLastAnnotation(p) called by the editor's handlers
RemoveDraft(p) ==
  IF annotations[p] = <<>>
  THEN UNCHANGED <<annotations, annotationUndo, annotationRedo, timers, curPending>>
  ELSE /\ annotations' = [annotations EXCEPT ![p] = WithoutLatest(@)]
       /\ annotationUndo' = [annotationUndo EXCEPT ![p] = Append(@, annotations[p])]
       /\ annotationRedo' = RedoAfterPush(p)
       /\ RearmNow

\* handleTextEditFinish(newText): the editor's blur, or Enter.
TextEditFinish(newText) ==
  /\ userEvents < eventLimit
  /\ userEvents' = userEvents + 1
  /\ editingText.open
  /\ last' = Step("textFinish", editingText.pageNum)
  /\ UNCHANGED <<captureVars, opVars, pageRotations, autoCaptureEnabled, activePage,
                 limits, observerVars, debounceVars, rangeVars, galleryVars,
                 exportVars, zipVars>>
  /\ LET p == editingText.pageNum
         annList == annotations[p]
         at == editingText.index + 1
     IN IF at > Len(annList) \/ ~IsTextNote(annList[at])
        THEN UNCHANGED <<annotations, annotationUndo, annotationRedo, timers,
                         curPending, editingText>>
        ELSE /\ IF ~IsBlank(newText)
                THEN /\ annotations' =
                          [annotations EXCEPT ![p][at] = TextNote(Trim(newText))]
                     /\ UNCHANGED <<annotationUndo, annotationRedo>>
                     /\ RearmNow
                ELSE RemoveDraft(p)
             /\ editingText' = [editingText EXCEPT !.open = FALSE, !.text = newText]

\* The editor's onCancel (Escape): removeLastAnnotation, setEditingText(null).
TextEditCancel(newText) ==
  /\ userEvents < eventLimit
  /\ userEvents' = userEvents + 1
  /\ editingText.open
  /\ last' = Step("textCancel", editingText.pageNum)
  /\ UNCHANGED <<captureVars, opVars, pageRotations, autoCaptureEnabled, activePage,
                 limits, observerVars, debounceVars, rangeVars, galleryVars,
                 exportVars, zipVars>>
  /\ editingText' = [editingText EXCEPT !.open = FALSE, !.text = newText]
  /\ RemoveDraft(editingText.pageNum)

\* rotateCurrent: setPageRotation(activePage, current + 90), stored % 360.
RotateCurrent ==
  /\ UserEvent
  /\ activePage # Null
  /\ pageRotations' = [pageRotations EXCEPT ![activePage] = Rotated(@)]
  /\ last' = Step("rotate", activePage)
  /\ UNCHANGED <<captureVars, opVars, annotations, annotationUndo, annotationRedo,
                 autoCaptureEnabled, activePage>>
  /\ RearmNow

\* ---------------------------------------------------------------- observer
\* `intersectionRatios.current.set(pageNum, ratio)` for the callback's entries.
RECURSIVE RatiosAfter(_, _, _)
RatiosAfter(entries, batch, i) ==
  IF i > Len(batch) THEN entries
  ELSE RatiosAfter(RatioSet(entries, batch[i][1], batch[i][2]), batch, i + 1)

\* The entries of one callback: none (no page element among them) or one; a
\* callback with more entries stores the ratios one callback per entry would.
Batches == {<<>>} \cup {<<e>> : e \in Pages \X Ratios}

\* The IntersectionObserver callback: the ratios are stored, the active page
\* is resolved against activePageRef.current (the active page of the last
\* render) and, if it differs, an animation frame is requested in place of the
\* one pending.
ObserverCallback(batch) ==
  /\ intersectionRatios' = RatiosAfter(intersectionRatios, batch, 1)
  /\ LET active == getActivePageFromIntersections(intersectionRatios', activePage)
     IN resolved' = IF active = activePage
                    THEN [resolved EXCEPT !.called = TRUE, !.current = activePage,
                                          !.page = active]
                    ELSE [called |-> TRUE, current |-> activePage, page |-> active,
                          requested |-> TRUE, next |-> active]
  /\ UNCHANGED <<viewerVars, debounceVars, rangeVars, galleryVars, exportVars,
                 textVars, zipVars>>

\* The requested animation frame runs: setActivePage(next).
AnimationFrame ==
  /\ resolved.requested
  /\ SetActivePage(resolved.next)

NextObserver ==
  \/ \E batch \in Batches : ObserverCallback(batch)
  \/ AnimationFrame

\* The observer, the resolver and the active page they set.
SpecObserver == Init /\ [][NextObserver]_vars

\* ---------------------------------------------------------------- debouncer
\* `setTimeout(..., delayMs)` at time t
DueAtOnce(t) == t
DueAt(t) == t + DEBOUNCE_MS

\* `if (lastValue !== undefined) onStable(lastValue)`
CallsAfterExpiry ==
  IF lastValue # Undefined
  THEN Append(onStableCalls,
              [at |-> now, value |-> lastValue, proposal |-> Len(proposals)])
  ELSE onStableCalls

\* The function debounceActivePage returned is called with value.
Propose(value) ==
  /\ Len(proposals) < MaxProposals
  /\ lastValue' = value
  /\ timeoutId' = [set |-> TRUE, due |-> DueAt(now)]
  /\ proposals' = Append(proposals, [at |-> now, value |-> value])
  /\ UNCHANGED <<now, onStableCalls, viewerVars, observerVars, rangeVars,
                 galleryVars, exportVars, textVars, zipVars>>

\* The pending timer is due and its callback runs.
Expire ==
  /\ timeoutId.set
  /\ timeoutId.due <= now
  /\ timeoutId' = [set |-> FALSE, due |-> 0]
  /\ onStableCalls' = CallsAfterExpiry
  /\ UNCHANGED <<now, lastValue, proposals, viewerVars, observerVars, rangeVars,
                 galleryVars, exportVars, textVars, zipVars>>

\* Time passes, up to the moment the pending timer is due; it goes on while
\* something can still happen.
Tick ==
  /\ timeoutId.set \/ Len(proposals) < MaxProposals
  /\ ~(timeoutId.set /\ timeoutId.due <= now)
  /\ now < 2 * MaxProposals * DEBOUNCE_MS
  /\ LET later == now + (DEBOUNCE_MS \div TicksPerPeriod)
     IN now' = IF timeoutId.set /\ timeoutId.due < later
               THEN timeoutId.due ELSE later
  /\ UNCHANGED <<timeoutId, lastValue, proposals, onStableCalls, viewerVars,
                 observerVars, rangeVars, galleryVars, exportVars, textVars, zipVars>>

NextDebounce ==
  \/ \E value \in Pages \cup {Null} : Propose(value)
  \/ Expire
  \/ Tick

\* One debouncer made by debounceActivePage(DEBOUNCE_MS, onStable), with a clock.
SpecDebounce == Init /\ [][NextDebounce]_vars

\* ---------------------------------------------------------------- ranges
\* The range utilities applied to any list of rows, whatever was typed.
InitRanges ==
  /\ InitState
  /\ activePage = Null
  /\ eventLimit = 0
  /\ opLimit = 0
  /\ annotationLimit = 0
  /\ ranges \in RangeLists

\* A run applies one utility to its list.
ValidateRanges ==
  /\ rangeResult = NoRangeResult
  /\ rangeResult' = RangeResult("validateRanges", validateRanges(ranges, NumPages),
                                <<>>, <<>>)
  /\ UNCHANGED <<ranges, viewerVars, observerVars, debounceVars, galleryVars,
                 exportVars, textVars, zipVars>>

NormalizeRangesForExport ==
  /\ rangeResult = NoRangeResult
  /\ rangeResult' = RangeResult("normalizeRangesForExport", NoError,
                                normalizeRangesForExport(ranges), <<>>)
  /\ UNCHANGED <<ranges, viewerVars, observerVars, debounceVars, galleryVars,
                 exportVars, textVars, zipVars>>

ExpandRangesToPages ==
  /\ rangeResult = NoRangeResult
  /\ rangeResult' = RangeResult("expandRangesToPages", NoError, <<>>,
                                expandRangesToPages(ranges))
  /\ UNCHANGED <<ranges, viewerVars, observerVars, debounceVars, galleryVars,
                 exportVars, textVars, zipVars>>

NextRanges ==
  \/ ValidateRanges
  \/ NormalizeRangesForExport
  \/ ExpandRangesToPages

SpecRanges == InitRanges /\ [][NextRanges]_vars

\* ---------------------------------------------------------------- batch export
\* ExportControls: handleExport, handleCancel and the exportPagesToZip call they
\* start and abort.  A run is in phase "rendering" until it has passed the last
\* `if (signal.aborted) throw` and in phase "saving" from then on.
exportFrame ==
  <<viewerVars, observerVars, debounceVars, rangeVars, galleryVars, textVars,
    zipVars>>

\* resetExportState (setProgress(null), setIsExporting(false),
\* abortControllerRef.current = null); the success path does the same three.
ResetExportState ==
  /\ isExporting' = FALSE
  /\ abortControllerRef' = Null

\* The message a rejected run is reported with through onError.
ReportOfRejection(aborted) ==
  IF aborted THEN "Export canceled." ELSE "Export failed: "

\* handleExport, from the export button (disabled while exporting or while the
\* settings do not validate).
HandleExport ==
  /\ ~isExporting
  /\ exportCount < MaxExports
  /\ exportCount' = exportCount + 1
  /\ abortControllerRef' = exportCount + 1
  /\ isExporting' = TRUE
  /\ appError' = ""
  /\ exportRuns' = exportRuns \cup
                     {[id |-> exportCount + 1, aborted |-> FALSE, phase |-> "rendering"]}
  /\ UNCHANGED <<outcomes, exportFrame>>

\* handleCancel, from the progress overlay's Cancel button.
HandleCancel ==
  /\ isExporting
  /\ exportRuns' = {IF run.id = abortControllerRef
                     THEN [run EXCEPT !.aborted = TRUE] ELSE run : run \in exportRuns}
  /\ ResetExportState
  /\ UNCHANGED <<exportCount, appError, outcomes, exportFrame>>

\* exportPagesToZip passes its last abort check.
ExportPassesLastCheck(run) ==
  /\ run.phase = "rendering"
  /\ ~run.aborted
  /\ exportRuns' = (exportRuns \ {run}) \cup {[run EXCEPT !.phase = "saving"]}
  /\ UNCHANGED <<isExporting, abortControllerRef, exportCount, appError, outcomes,
                 exportFrame>>

\* exportPagesToZip resolves: onSuccess(result), which clears App's error.
ExportResolves(run) ==
  /\ run.phase = "saving"
  /\ exportRuns' = exportRuns \ {run}
  /\ ResetExportState
  /\ appError' = ""
  /\ outcomes' = Append(outcomes, [run |-> run.id, canceled |-> run.aborted,
                                    channel |-> "onSuccess", message |-> ""])
  /\ UNCHANGED <<exportCount, exportFrame>>

\* exportPagesToZip rejects, with an AbortError at an abort check after the
\* user's cancel or with a failure of rendering or zipping: the catch block.
ExportRejects(run, aborted) ==
  /\ aborted => run.aborted /\ run.phase = "rendering"
  /\ exportRuns' = exportRuns \ {run}
  /\ ResetExportState
  /\ appError' = ReportOfRejection(aborted)
  /\ outcomes' = Append(outcomes, [run |-> run.id, canceled |-> aborted,
                                    channel |-> "onError",
                                    message |-> ReportOfRejection(aborted)])
  /\ UNCHANGED <<exportCount, exportFrame>>

NextExport ==
  \/ HandleExport
  \/ HandleCancel
  \/ \E run \in exportRuns : ExportPassesLastCheck(run)
  \/ \E run \in exportRuns : ExportResolves(run)
  \/ \E run \in exportRuns, aborted \in BOOLEAN : ExportRejects(run, aborted)

SpecExport == Init /\ [][NextExport]_vars

\* ---------------------------------------------------------------- exportPagesToZip
\* One call of exportPagesToZip taken alone, from one await to the next; its
\* AbortSignal can be aborted at any moment, also before the call.
zipFrame ==
  <<viewerVars, observerVars, debounceVars, rangeVars, galleryVars, exportVars,
    textVars>>

\* `if (signal.aborted) throw new DOMException('Export canceled', 'AbortError')`
\* at the given line
ThrowsInLoopOnly(z, at) == z.aborted /\ at \in {72, 85}
Throws(z, at) == z.aborted

AbortError(z) == [z EXCEPT !.pc = "settled", !.outcome = "AbortError"]

\* From the loop's test for page pageNum to the next await (or the throw).
FromLoopHead(z, pageNum) ==
  IF pageNum <= z.endPage
  THEN IF Throws(z, 72) THEN AbortError(z)
       ELSE [z EXCEPT !.pc = "render", !.pageNum = pageNum]
  ELSE IF Throws(z, 97) THEN AbortError(z)
       ELSE [z EXCEPT !.pc = "generate", !.pageNum = pageNum]

\* The call, up to its first await.
ExportPagesToZip(startPage, endPage, aborted) ==
  /\ zip.pc = "idle"
  /\ zip' = FromLoopHead([NoZipCall EXCEPT !.startPage = startPage,
                                           !.endPage = endPage,
                                           !.aborted = aborted,
                                           !.abortedAt = IF aborted THEN "call"
                                                         ELSE "never"],
                         startPage)
  /\ UNCHANGED zipFrame

\* `await renderPageToCanvas(...)` resolves.
RenderResolves ==
  /\ zip.pc = "render"
  /\ zip' = IF Throws(zip, 85) THEN AbortError(zip) ELSE [zip EXCEPT !.pc = "toBlob"]
  /\ UNCHANGED zipFrame

\* `await canvasToBlob(...)` resolves: zip.file(filename, blob), pageNum++.
ToBlobResolves ==
  /\ zip.pc = "toBlob"
  /\ zip' = FromLoopHead([zip EXCEPT !.files = Append(@, zip.pageNum)],
                         zip.pageNum + 1)
  /\ UNCHANGED zipFrame

\* `await zip.generateAsync(...)` resolves: the last check, saveAs, return.
GenerateResolves ==
  /\ zip.pc = "generate"
  /\ zip' = IF Throws(zip, 109) THEN AbortError(zip)
            ELSE [zip EXCEPT !.pc = "settled", !.saved = TRUE,
                             !.outcome = "resolved"]
  /\ UNCHANGED zipFrame

\* The awaited promise rejects: the call ends with that error.
ZipAwaitRejects ==
  /\ zip.pc \in {"render", "toBlob", "generate"}
  /\ zip' = [zip EXCEPT !.pc = "settled", !.outcome = "failed"]
  /\ UNCHANGED zipFrame

\* controller.abort() by the owner of the signal.
SignalAborts ==
  /\ zip.pc # "idle"
  /\ ~zip.aborted
  /\ zip' = [zip EXCEPT !.aborted = TRUE, !.abortedAt = zip.pc]
  /\ UNCHANGED zipFrame

NextZip ==
  \/ \E startPage \in Pages, endPage \in 0..NumPages, aborted \in BOOLEAN :
       startPage <= endPage + 1 /\ ExportPagesToZip(startPage, endPage, aborted)
  \/ RenderResolves
  \/ ToBlobResolves
  \/ GenerateResolves
  \/ ZipAwaitRejects
  \/ SignalAborts

SpecZip == Init /\ [][NextZip]_vars

\* ---------------------------------------------------------------- Next
\* The capture state machine: the capture steps, the triggers, the viewer's
\* and the gallery's actions, and the edits the compositor reads (a committed
\* annotation, a rotation).
NextCapture ==
  \/ TimerFire
  \/ CaptureNow
  \/ \E p \in Pages : Recapture(p)
  \/ \E op \in inflight : CaptureAdvance(op)
  \/ \E op \in inflight : CaptureComplete(op)
  \/ \E op \in inflight : CaptureReject(op)
  \/ \E p \in Pages \cup {Null} : SetActivePage(p)
  \/ ToggleAutoCapture
  \/ \E p \in Pages : UndoCapture(p)
  \/ \E p \in Pages : ToggleSelected(p)
  \/ SelectAllCaptured
  \/ DeselectAllCaptured
  \/ RemoveSelectedCaptures
  \/ ClearAllCaptures
  \/ \E p \in Pages, a \in AnnKinds : AppendAnnotation(p, a)
  \/ RotateCurrent

\* The annotation history: eraser, undo, redo.
NextEdit ==
  \/ \E p \in Pages : RemoveLastAnnotation(p)
  \/ UndoAnnotation
  \/ RedoAnnotation

Next == NextCapture \/ NextEdit

Spec == Init /\ [][NextCapture]_vars

\* The whole program, with one more user event and one more capture.
SpecDeep == InitDeep /\ [][Next]_vars

\* The capture state machine with the gallery's export.
NextGallery ==
  \/ NextCapture
  \/ \E prefixGiven \in BOOLEAN : ExportSelected(prefixGiven)
  \/ \E ok \in BOOLEAN : GalleryExportSettles(ok)

SpecGallery == Init /\ [][NextGallery]_vars

\* The annotation editor taken alone: gestures, eraser, undo, redo, rotate.
NextAnnotate ==
  \/ \E p \in Pages, a \in AnnKinds : AppendAnnotation(p, a)
  \/ \E p \in Pages : RemoveLastAnnotation(p)
  \/ UndoAnnotation
  \/ RedoAnnotation
  \/ RotateCurrent

SpecEdit == InitEdit /\ [][NextAnnotate]_vars

\* The annotation history with the calls that find a stack empty.
NextHistory ==
  \/ NextAnnotate
  \/ \E p \in Pages : UndoOnEmpty(p)
  \/ \E p \in Pages : RedoOnEmpty(p)

SpecHistory == InitEdit /\ [][NextHistory]_vars

\* The annotation editor with the dragging of a placed signature.
NextSignature ==
  \/ NextAnnotate
  \/ \E p \in Pages, i \in 1..EditAnnotations : MoveSignature(p, i)

SpecSignature == InitEdit /\ [][NextSignature]_vars

\* The annotation editor with the text tool and its inline editor.
NextText ==
  \/ NextAnnotate
  \/ \E p \in Pages : StartTextNote(p)
  \/ \E newText \in Texts : TextEditFinish(newText)
  \/ \E newText \in Texts : TextEditCancel(newText)

SpecText == InitEdit /\ [][NextText]_vars

\* Every asynchronous step of a capture in flight eventually resolves or
\* rejects: the awaits of performCapture call i are not starved.
Settle(i) ==
  \E op \in inflight :
    /\ op.id = i
    /\ (CaptureAdvance(op) \/ CaptureComplete(op) \/ CaptureReject(op))

SpecFair ==
  /\ Init
  /\ [][NextCapture]_vars
  /\ \A i \in 1..MaxOps : WF_vars(Settle(i))

\* ================================================================ claims

\* C1: in every reachable state at most one capture operation is in flight,
\* also when Recapture is requested while another capture has not resolved.
C1_AtMostOneCaptureInFlight == Cardinality(inflight) <= 1

\* C2: once a page has ever been captured, no automatic trigger (the debounced
\* callback, the initial page-1 trigger) starts a capture of it again, whatever
\* active-page changes, edits, undo-capture and clear-all come in between.
C2_NoAutoCaptureOfCapturedPage ==
  (last.kind = "auto" /\ last.started) => last.page \notin everCaptured

\* C3: a capture request made by the auto-capture callback or by Capture now
\* while the guard is held changes neither the capturing set, the captures,
\* the selection, the guard nor the set of captures in flight: nothing is
\* started, so nothing is ever written, on behalf of the rejected request.
C3_RejectedRequestIsNoOp ==
  [][(last'.kind \in {"auto", "captureNow"} /\ capturingRef)
       => UNCHANGED <<capturingSet, captures, selectedForExport, capturingRef,
                      inflight, opCount, revoked>>]_vars

C3_Witness ==
  /\ last.kind \in {"auto", "captureNow"}
  /\ last.held
  /\ ~last.started
  /\ Cardinality(inflight) = 1

\* C4: a capture that ends, by success or by a rejected step, leaves the guard
\* released, and the guard is never held while no capture is in flight.
C4_GuardHeldOnlyWhileInFlight ==
  /\ capturingRef => inflight # {}
  /\ last.kind \in {"complete", "fail"} => ~capturingRef

C4_Witness ==
  /\ last.kind = "fail"
  /\ inflight = {}
  /\ ~capturingRef

\* C5: if every asynchronous capture step eventually resolves or rejects, a
\* page in the capturing set eventually leaves it, whatever the user does.
C5_CapturingEventuallyLeaves ==
  \A p \in Pages : (p \in capturingSet) ~> (p \notin capturingSet)

C5_Witness ==
  /\ last.kind \in {"complete", "fail"}
  /\ ~last.replace
  /\ last.origin = "auto"
  /\ capturingSet = {}
  /\ opCount >= 2

\* C6: after a failed first-time capture of an uncaptured page the page is
\* idle: not capturing, without a stored capture, not selected.
C6_FailedFirstCaptureLeavesPageIdle ==
  (last.kind = "fail" /\ ~last.replace /\ last.fresh)
    => /\ last.page \notin capturingSet
       /\ last.page \notin capturedSet
       /\ last.page \notin selectedForExport

C8_CompletedCaptureIsSelected ==
  (last.kind = "complete" /\ ~last.replace)
    => /\ last.page \in capturedSet
       /\ captures[last.page].thumbnailUrl = last.id
       /\ last.page \notin capturingSet
       /\ last.page \in selectedForExport

C8_Witness ==
  /\ last.kind = "complete"
  /\ ~last.replace
  /\ last.fresh
  /\ last.page \in selectedForExport

\* C9: a capture started by Recapture or Capture now on a page that already
\* had a stored capture leaves the selection set as it was when it completes.
C9_RecaptureKeepsSelection ==
  [][(last'.kind = "complete" /\ ~last'.fresh
        /\ last'.origin \in {"recapture", "captureNow"})
       => selectedForExport' = selectedForExport]_vars

\* C10: undo-capture removes the page's capture, its selection and its
\* capturing mark and leaves annotations, undo/redo stacks and rotations as
\* they were; the debouncer made by the re-render closes over that page's
\* current annotation list and rotation.
C10_UndoCaptureKeepsAnnotations ==
  [][last'.kind = "undoCapture"
       => /\ last'.page \notin DOMAIN captures'
          /\ last'.page \notin selectedForExport'
          /\ last'.page \notin capturingSet'
          /\ UNCHANGED annVars
          /\ timers'[Len(timers')].value = last'.page
          /\ timers'[Len(timers')].ann = annotations[last'.page]
          /\ timers'[Len(timers')].rot = pageRotations[last'.page]]_vars

C10_Witness ==
  /\ last.kind = "undoCapture"
  /\ annotations[last.page] # <<>>
  /\ last.page \notin capturedSet

\* C11: every page has exactly one capture status: no page is at the same
\* time in the capturing set and among the pages with a stored capture.
C11_OneStatusPerPage == capturingSet \cap capturedSet = {}

\* C12: every change of a page's capture status (capturing while in the
\* capturing set, else captured while a capture is stored, else idle) is an
\* allowed transition: idle to capturing, capturing to captured, capturing to
\* idle, captured to idle; in particular no step takes a page from idle
\* directly to captured.
C12_StatusTransitionsAllowed ==
  [][\A p \in Pages :
       LET StatusOf(capturing, caps) ==
             IF p \in capturing THEN "capturing"
             ELSE IF p \in DOMAIN caps THEN "captured" ELSE "idle"
           before == StatusOf(capturingSet, captures)
           after == StatusOf(capturingSet', captures')
       IN before # after =>
            <<before, after>> \in {<<"idle", "capturing">>,
                                   <<"capturing", "captured">>,
                                   <<"capturing", "idle">>,
                                   <<"captured", "idle">>}]_vars

\* C13: the selection set is a subset of the pages that have a stored capture.
C13_SelectionWithinCaptured == selectedForExport \subseteq capturedSet

C13_Witness ==
  /\ last.kind \in {"undoCapture", "removeSelected", "toggleSelected", "selectAll"}
  /\ selectedForExport # {}
  /\ revoked # {}

\* C14: a step that replaces or deletes a stored CapturedPage revokes its
\* thumbnail URL in that same step.
C14_ReplacedOrDeletedUrlRevoked ==
  [][\A p \in DOMAIN captures :
       (p \notin DOMAIN captures'
          \/ captures'[p].thumbnailUrl # captures[p].thumbnailUrl)
         => captures[p].thumbnailUrl \in revoked']_vars

C14_Witness ==
  /\ last.kind = "complete"
  /\ last.replace
  /\ captures[last.page].thumbnailUrl \notin revoked
  /\ revoked # {}

\* C15: the step of clear-all leaves the captures map, the selection set and
\* the capturing set empty and has every thumbnail URL stored before it revoked.
C15_ClearAllEmptiesEverything ==
  [][last'.kind = "clearAll"
       => /\ DOMAIN captures' = {}
          /\ selectedForExport' = {}
          /\ capturingSet' = {}
          /\ \A p \in DOMAIN captures : captures[p].thumbnailUrl \in revoked']_vars

C15_Witness ==
  /\ last.kind = "clearAll"
  /\ Cardinality(revoked) >= 2
  /\ inflight # {}

\* C16: with no current active page the resolver returns a page of highest
\* ratio, and none when the map is empty or every ratio is 0; for a map with a
\* single entry of positive ratio it returns that page.
C16_NoCurrentReturnsLeader ==
  (resolved.called /\ resolved.current = Null) =>
    LET e == intersectionRatios
        top == CHOOSE r \in Ratios :
                 /\ \E i \in 1..Len(e) : e[i][2] = r
                 /\ \A i \in 1..Len(e) : e[i][2] <= r
    IN IF Len(e) = 0 THEN resolved.page = Null
       ELSE IF top = 0 THEN resolved.page = Null
       ELSE \E i \in 1..Len(e) : e[i][1] = resolved.page /\ e[i][2] = top

C16_Witness ==
  /\ resolved.called
  /\ resolved.current = Null
  /\ Len(intersectionRatios) = 2
  /\ resolved.page = intersectionRatios[2][1]
  /\ intersectionRatios[1][2] > 0

\* C17: when a current active page exists and a page of higher ratio leads,
\* the resolver returns the current page exactly when its ratio is at least
\* 0.2 and the leader's ratio exceeds it by at most 0.15, and the leader in
\* every other case.
C17_HysteresisKeepsCurrentUpToMargin ==
  (resolved.called /\ resolved.current # Null /\ Len(intersectionRatios) > 0) =>
    LET e == intersectionRatios
        cur == RatioOf(e, resolved.current)
        top == CHOOSE r \in Ratios :
                 /\ \E i \in 1..Len(e) : e[i][2] = r
                 /\ \A i \in 1..Len(e) : e[i][2] <= r
    IN top > cur =>
         IF cur >= 20 /\ top - cur <= 15
         THEN resolved.page = resolved.current
         ELSE \E i \in 1..Len(e) : e[i][1] = resolved.page /\ e[i][2] = top

\* C18: the debouncer invokes its callback only a full quiet period after the
\* latest proposal, with that proposal's value, and once per burst: no proposal
\* is answered twice, and when no timer is pending the latest proposal has
\* been answered.
C18_OneCallPerQuietPeriod ==
  /\ \A i \in 1..Len(onStableCalls) :
       LET call == onStableCalls[i]
       IN /\ call.proposal >= 1
          /\ call.value = proposals[call.proposal].value
          /\ call.at = proposals[call.proposal].at + 150
          /\ \A j \in 1..Len(onStableCalls) :
               onStableCalls[j].proposal = call.proposal => j = i
  /\ (~timeoutId.set /\ proposals # <<>>) =>
        \E i \in 1..Len(onStableCalls) :
           onStableCalls[i].proposal = Len(proposals)
  /\ timeoutId.set => timeoutId.due = proposals[Len(proposals)].at + 150

C18_Witness ==
  /\ Len(proposals) = 2
  /\ Len(onStableCalls) = 1
  /\ proposals[2].at > proposals[1].at
  /\ proposals[2].value # proposals[1].value
  /\ onStableCalls[1].proposal = 2

\* C19: the debouncer never invokes its callback with a null proposal.
C19_NoCallForNull ==
  \A i \in 1..Len(onStableCalls) : onStableCalls[i].value # Null

\* C20: at most one debounce timer is pending for the auto-capture trigger,
\* also across re-creations of the debounced function in the viewer.
C20_AtMostOnePendingTimer == Len(timers) <= 1

\* C21: Undo replaces the active page's annotation list by the snapshot pushed
\* last on that page's undo stack and keeps the list it replaced for redo;
\* redo replaces the list by the state undone last and keeps the list it
\* replaced for undo.  In particular, after A and B were appended to an empty
\* history and undone, the redo that follows yields exactly the list [A].
C21_UndoRedoRestoreSnapshots ==
  [][/\ last'.kind = "undoAnnotation" =>
          LET p == last'.page
          IN /\ annotations'[p] = annotationUndo[p][Len(annotationUndo[p])]
             /\ Len(annotationUndo'[p]) = Len(annotationUndo[p]) - 1
             /\ annotationRedo'[p] = Append(annotationRedo[p], annotations[p])
     /\ last'.kind = "redoAnnotation" =>
          LET p == last'.page
          IN /\ annotations'[p] = annotationRedo[p][Len(annotationRedo[p])]
             /\ Len(annotationRedo'[p]) = Len(annotationRedo[p]) - 1
             /\ annotationUndo'[p] = Append(annotationUndo[p], annotations[p])
             /\ \A a, b \in AnnKinds :
                  (/\ annotationRedo[p] = << <<a, b>>, <<a>> >>
                   /\ annotationUndo[p] = <<>>
                   /\ annotations[p] = <<>>) => annotations'[p] = <<a>>
    ]_vars

\* A, B, undo, undo, redo on page 1, and nothing else, has happened.
C21_Witness ==
  /\ last.kind = "redoAnnotation"
  /\ last.page = 1
  /\ userEvents = 5
  /\ Len(timers) = 6
  /\ timers[2].ann = <<"highlight">>
  /\ timers[3].ann = <<"highlight", "signature">>
  /\ annotations[1] = <<"highlight">>
  /\ annotationUndo[1] = << <<>> >>
  /\ annotationRedo[1] = << <<"highlight", "signature">> >>

\* C22: A step that pushes a new state for a page (appendAnnotation, or
\* removeLastAnnotation on a list that is not empty) leaves that page's redo
\* stack empty.
C22_PushClearsRedo ==
  [][(\/ last'.kind = "append"
      \/ last'.kind = "eraser" /\ annotations[last'.page] # <<>>)
       => annotationRedo'[last'.page] = <<>>]_vars

\* An append on page 1 that follows an undo: the redo stack was not empty.
C22_Witness ==
  /\ last.kind = "append"
  /\ last.page = 1
  /\ activePage = 1
  /\ Len(timers) = 4
  /\ timers[2].ann # <<>>
  /\ timers[3].ann = <<>>
  /\ Len(annotationUndo[1]) = 1
  /\ annotationRedo[1] = <<>>

\* C23: Rotate stores (previous rotation + 90) mod 360 for the active page;
\* every stored rotation is one of 0, 90, 180, 270; rotating four times gives
\* the value back; rotate changes no other page's rotation, no annotation
\* list, no undo or redo stack, no stored capture and no selection.
C23_RotateQuarterTurnOnly ==
  [][/\ \A p \in Pages :
          /\ pageRotations'[p] \in {0, 90, 180, 270}
          /\ Rotated(Rotated(Rotated(Rotated(pageRotations'[p])))) = pageRotations'[p]
     /\ last'.kind = "rotate" =>
          /\ activePage # Null
          /\ pageRotations'[activePage] = (pageRotations[activePage] + 90) % 360
          /\ \A p \in Pages \ {activePage} : pageRotations'[p] = pageRotations[p]
          /\ UNCHANGED <<annotations, annotationUndo, annotationRedo, captures,
                         selectedForExport>>
    ]_vars

\* Four rotations of page 1, and nothing else, have happened.
C23_Witness ==
  /\ last.kind = "rotate"
  /\ userEvents = 4
  /\ Len(timers) = 5
  /\ timers[3].rot = 180
  /\ pageRotations[1] = 0
  /\ \A p \in Pages : annotations[p] = <<>> /\ annotationUndo[p] = <<>>

\* C24: What normalizeRangesForExport returns is sorted by start, every
\* interval has start <= end, and consecutive intervals neither overlap nor
\* touch: the next start is at least the previous end + 2.
C24_NormalizedSortedDisjointNonAdjacent ==
  rangeResult.fn = "normalizeRangesForExport" =>
    LET n == rangeResult.normalized
    IN /\ \A i \in 1..Len(n) : n[i].start <= n[i].end
       /\ \A i \in 1..(Len(n) - 1) :
            /\ n[i].start <= n[i + 1].start
            /\ n[i + 1].start >= n[i].end + 2

\* 3-2 (reversed), 1-1 and -1 - -1: the first two touch and merge, the third
\* stays apart.
C24_Witness ==
  /\ rangeResult.fn = "normalizeRangesForExport"
  /\ ranges = <<[start |-> <<"3">>, end |-> <<" ", "2">>],
                [start |-> <<"1">>, end |-> <<"1">>],
                [start |-> <<"-", "1">>, end |-> <<"-", "1">>]>>
  /\ rangeResult.normalized = <<[start |-> 0 - 1, end |-> 0 - 1],
                                [start |-> 1, end |-> 3]>>

\* C25: Handing the normalized ranges back to the utilities changes nothing:
\* normalizing them returns them as they are, and expanding them gives the
\* page list the raw ranges expand to.  2-3 with 3-3 normalizes to 2-3 and
\* expands to [2, 3].
C25_NormalizeIdempotentExpandAgrees ==
  LET AsRows(n) == [i \in 1..Len(n) |->
                      [start |-> String(n[i].start), end |-> String(n[i].end)]]
      twoThree == <<[start |-> <<" ", "2">>, end |-> <<"3">>],
                    [start |-> <<"3">>, end |-> <<"3">>]>>
  IN /\ rangeResult.fn = "normalizeRangesForExport" =>
          /\ normalizeRangesForExport(AsRows(rangeResult.normalized))
               = rangeResult.normalized
          /\ ranges = twoThree =>
               rangeResult.normalized = <<[start |-> 2, end |-> 3]>>
     /\ rangeResult.fn = "expandRangesToPages" =>
          /\ expandRangesToPages(AsRows(normalizeRangesForExport(ranges)))
               = rangeResult.pages
          /\ ranges = twoThree => rangeResult.pages = <<2, 3>>

C25_Witness ==
  /\ rangeResult.fn = "expandRangesToPages"
  /\ ranges = <<[start |-> <<" ", "2">>, end |-> <<"3">>],
                [start |-> <<"3">>, end |-> <<"3">>]>>
  /\ rangeResult.pages = <<2, 3>>

\* C26: expandRangesToPages returns a strictly ascending list (so without
\* duplicates) of exactly the pages that lie within at least one row whose two
\* fields both parse, a reversed row counting as swapped; a row with a field
\* that does not parse adds nothing.
C26_ExpandIsCoveredPagesAscending ==
  rangeResult.fn = "expandRangesToPages" =>
    LET pages == rangeResult.pages
        Covers(r, p) ==
          LET a == parsePage(r.start)
              b == parsePage(r.end)
          IN /\ ~a.null
             /\ ~b.null
             /\ \/ a.n <= p /\ p <= b.n
                \/ b.n <= p /\ p <= a.n
    IN /\ \A i \in 1..(Len(pages) - 1) : pages[i] < pages[i + 1]
       /\ \A p \in (0 - 9)..9 :
            (\E i \in 1..Len(pages) : pages[i] = p)
              <=> (\E i \in 1..Len(ranges) : Covers(ranges[i], p))

\* A reversed row (3 down to 1), a row without an end, and a row that overlaps.
C26_Witness ==
  /\ rangeResult.fn = "expandRangesToPages"
  /\ ranges = <<[start |-> <<"3">>, end |-> <<"1">>],
                [start |-> <<"-", "1">>, end |-> <<>>],
                [start |-> <<" ", "2">>, end |-> <<"3">>]>>
  /\ rangeResult.pages = <<1, 2, 3>>

\* C27: validateRange returns no error exactly when both fields parse and
\* 1 <= start <= end <= page count, and otherwise the message of the first
\* check that fails, in the order: a field missing or unparseable, start < 1,
\* end > page count, start > end.  validateRanges rejects the empty list and
\* otherwise returns the error of the first invalid row, in list order.
C27_ValidationFirstFailingCheck ==
  rangeResult.fn = "validateRanges" =>
    LET Failing(r) ==
          LET a == parsePage(r.start)
              b == parsePage(r.end)
          IN <<a.null \/ b.null, a.n < 1, b.n > NumPages, a.n > b.n>>
        Messages ==
          << <<"All range fields must be filled.">>,
             <<"Start page must be at least 1.">>,
             <<"End page cannot exceed ", NumPages, ".">>,
             <<"Start page must be less than or equal to end page.">> >>
        Valid(r) ==
          LET a == parsePage(r.start)
              b == parsePage(r.end)
          IN ~a.null /\ ~b.null /\ 1 <= a.n /\ a.n <= b.n /\ b.n <= NumPages
        \* e is the outcome for the row r
        Outcome(r, e) ==
          /\ (e = NoError) <=> Valid(r)
          /\ \A k \in 1..4 :
               (Failing(r)[k] /\ \A j \in 1..(k - 1) : ~Failing(r)[j])
                 => e = Messages[k]
        error == rangeResult.error
    IN /\ Len(ranges) = 0 => error = <<"At least one range is required.">>
       /\ Len(ranges) = 1 => Outcome(ranges[1], error)
       /\ (Len(ranges) > 0 /\ \A i \in 1..Len(ranges) : Valid(ranges[i]))
            => error = NoError
       /\ \A i \in 1..Len(ranges) :
            (~Valid(ranges[i]) /\ \A j \in 1..(i - 1) : Valid(ranges[j]))
              => Outcome(ranges[i], error)

\* A valid row, then a row whose start is below 1 and whose end exceeds the
\* page count, then a row with a missing field.
C27_Witness ==
  /\ rangeResult.fn = "validateRanges"
  /\ ranges = <<[start |-> <<"1">>, end |-> <<" ", "2">>],
                [start |-> <<"-", "1">>, end |-> <<"3">>],
                [start |-> <<>>, end |-> <<"1">>]>>
  /\ rangeResult.error = <<"Start page must be at least 1.">>

\* C28: The page list the gallery hands to exportCapturedToZip is strictly
\* ascending (so without duplicates) and holds exactly the pages that have a
\* stored capture and are selected; a page that is only a capturing
\* placeholder is never in it.
C28_ExportListIsSelectedCapturesAscending ==
  [][Len(handedToExport') > Len(handedToExport) =>
       LET selected == handedToExport'[Len(handedToExport')]
           handed == {selected[i] : i \in 1..Len(selected)}
       IN /\ \A i \in 1..(Len(selected) - 1) : selected[i] < selected[i + 1]
          /\ handed = (DOMAIN captures) \cap selectedForExport
          /\ handed \cap (capturingSet \ DOMAIN captures) = {}
    ]_vars

\* Page 1 is captured and selected, page 2 is a capturing placeholder: [1] is
\* handed over.
C28_Witness ==
  /\ last.kind = "exportSelected"
  /\ handedToExport # <<>>
  /\ handedToExport[Len(handedToExport)] = <<1>>
  /\ 2 \in capturingSet \ capturedSet
  /\ selectedForExport = {1}

\* C29: A batch export the user cancelled is reported as a canceled outcome of
\* its own, and not through onError, the channel export failures are reported
\* through.
C29_CancelNotOnErrorChannel ==
  \A i \in 1..Len(outcomes) :
    outcomes[i].canceled => outcomes[i].channel # "onError"

C31_EraserRemovesLastOnly ==
  [][last'.kind = "eraser" =>
       LET p == last'.page
           n == Len(annotations[p])
       IN /\ \A q \in Pages \ {p} : annotations'[q] = annotations[q]
          /\ n > 0 => /\ Len(annotations'[p]) = n - 1
                      /\ \A i \in 1..(n - 1) : annotations'[p][i] = annotations[p][i]
          /\ n = 0 => UNCHANGED <<annotations, annotationUndo, annotationRedo>>
    ]_vars

\* The eraser took the signature off the list [highlight, signature] of page 1,
\* and before that it was used on page 1 while its list was empty.
C31_Witness ==
  /\ last.kind = "eraser"
  /\ last.page = 1
  /\ userEvents = 4
  /\ annotations[1] = <<"highlight">>
  /\ annotationUndo[1] = << <<>>, <<"highlight">>, <<"highlight", "signature">> >>

\* C32: Every capture composites the page's annotation list as it is at the
\* moment the capture starts: every annotation committed before the start is
\* in the list the capture draws, also when annotation edits interleave with
\* debounce timers and captures in flight.
C32_CaptureCompositesListAtStart ==
  [][last'.started =>
       \A op \in inflight' :
         op.id = last'.id => op.ann = annotations[op.page]]_vars

\* C33: While auto-capture is switched off no capture is started by a debounce
\* timer, not even by a timer that was pending when it was switched off; the
\* captures that start in that state come from Capture now or Recapture.
C33_NoAutoCaptureWhileSwitchedOff ==
  [][(last'.started /\ ~autoCaptureEnabled) =>
       last'.origin \in {"captureNow", "recapture"}]_vars

C35_OneExportOwnsItsState ==
  /\ Cardinality(exportRuns) <= 1
  /\ \A run \in exportRuns :
       ~run.aborted => isExporting /\ abortControllerRef = run.id

\* C36: An undo on a page followed at once by a redo leaves the page's
\* annotation list, undo stack and redo stack exactly as they were before the
\* undo, and a redo followed at once by an undo leaves them as they were
\* before the redo; an undo that finds the undo stack empty and a redo that
\* finds the redo stack empty change no list and no stack.
C36_UndoRedoAreInverse ==
  [][/\ (\/ last.kind = "undoAnnotation" /\ last'.kind = "redoAnnotation"
         \/ last.kind = "redoAnnotation" /\ last'.kind = "undoAnnotation")
          => /\ last'.page = last.page
             /\ <<annotations'[last.page], annotationUndo'[last.page],
                  annotationRedo'[last.page]>> = last.was
             /\ \A q \in Pages \ {last.page} :
                  /\ annotations'[q] = annotations[q]
                  /\ annotationUndo'[q] = annotationUndo[q]
                  /\ annotationRedo'[q] = annotationRedo[q]
     /\ last'.kind \in {"undoEmpty", "redoEmpty"}
          => UNCHANGED <<annotations, annotationUndo, annotationRedo>>
    ]_vars

\* Highlight and signature appended to page 1, then undo and redo: the list and
\* the two-deep undo stack are back.
C36_Witness ==
  /\ last.kind = "redoAnnotation"
  /\ last.page = 1
  /\ userEvents = 4
  /\ annotations[1] = <<"highlight", "signature">>
  /\ annotationUndo[1] = << <<>>, <<"highlight">> >>
  /\ annotationRedo[1] = <<>>
  /\ last.was = << <<"highlight">>, << <<>> >>, << <<"highlight", "signature">> >> >>

\* C37: While a page's redo stack is not empty the page's annotation list is
\* the one the latest undo or redo step produced: a step that changes the list
\* and leaves the redo stack non-empty is an undo or a redo of that page, so
\* a redo never overwrites an edit made after the undo.
C37_RedoStackOnlyOverUneditedList ==
  [][\A p \in Pages :
       (annotationRedo'[p] # <<>> /\ annotations'[p] # annotations[p])
         => /\ last'.kind \in {"undoAnnotation", "redoAnnotation"}
            /\ last'.page = p]_vars

\* C38: After a draft text note was discarded (closed with a text that is
\* empty after trimming, or by Escape) the page's undo stack and redo stack
\* are what they were before the text gesture began, so that no later undo or
\* redo brings a note with empty text back.
C38_DiscardedDraftLeavesNoHistory ==
  [][(/\ last'.kind \in {"textFinish", "textCancel"}
      /\ ~editingText'.open
      /\ last'.kind = "textCancel" \/ editingText'.text \in {<<>>, <<" ">>})
       => LET p == editingText.pageNum
          IN /\ annotationUndo'[p] = editingText.undoBefore
             /\ annotationRedo'[p] = editingText.redoBefore
             /\ \A i \in 1..Len(annotationUndo'[p]) :
                  \A j \in 1..Len(annotationUndo'[p][i]) :
                    annotationUndo'[p][i][j] # "text:"
    ]_vars

\* C39: The resolver's result is a fixed point: given back as the current
\* active page with the same ratio map, the resolver returns it again; and a
\* result other than none is a page whose ratio in the map is greater than 0.
C39_ResolverResultIsFixedPoint ==
  resolved.called =>
    /\ getActivePageFromIntersections(intersectionRatios, resolved.page)
         = resolved.page
    /\ resolved.page # Null =>
         \E i \in 1..Len(intersectionRatios) :
           /\ intersectionRatios[i][1] = resolved.page
           /\ intersectionRatios[i][2] > 0

\* The resolver kept the current page 1 (ratio 0.20) although page 2 leads with
\* 0.30, less than the margin ahead.
C39_Witness ==
  /\ resolved.called
  /\ resolved.current = 1
  /\ resolved.page = 1
  /\ RatioOf(intersectionRatios, 1) = 20
  /\ RatioOf(intersectionRatios, 2) = 30

\* C40: No thumbnail URL that an entry of the captures map refers to has been
\* revoked, whatever the interleaving of capture completions, recaptures,
\* undo-capture, remove-selected and clear-all; and no URL is revoked twice:
\* the URL of every entry a step replaces or deletes was not revoked before,
\* and the step revokes as many new URLs as entries leave the map.
C40_NoStoredUrlRevoked ==
  [][LET leaving == {p \in DOMAIN captures :
                       p \notin DOMAIN captures' \/ captures'[p] # captures[p]}
     IN /\ \A p \in DOMAIN captures' : captures'[p].thumbnailUrl \notin revoked'
        /\ \A p \in leaving : captures[p].thumbnailUrl \notin revoked
        /\ Cardinality(revoked' \ revoked) = Cardinality(leaving)
    ]_vars

\* A recapture of page 2 has replaced its entry while page 1 is captured too:
\* the replaced URL is revoked, the two stored URLs are not.
C40_Witness ==
  /\ last.kind = "complete"
  /\ last.replace
  /\ last.page = 2
  /\ DOMAIN captures = {1, 2}
  /\ Cardinality(revoked) = 1
  /\ captures[1].thumbnailUrl \notin revoked
  /\ captures[2].thumbnailUrl \notin revoked

====
